---- MODULE Spec2Model ----
(***************************************************************************)
(* Model of lib/mayaUsd/ufe/UsdTransform3dMayaXformStack.cpp: the Maya     *)
(* transform stack over a prim's xformOpOrder, and its undoable edit       *)
(* commands.                                                               *)
(*                                                                         *)
(* The prim is the pair (order, attrs): order is the xformOpOrder token    *)
(* list, attrs maps every attribute name to "absent", "novalue" (created,  *)
(* never written) or its value.  An op name is the pair <<prefix, attr>>,  *)
(* prefix being "!invert!" for an inverse op and "" otherwise.             *)
(***************************************************************************)
EXTENDS Integers, Sequences, FiniteSets, TLC

\* ------------------------------------------------------------------ bounds
MaxInput == 2
MaxStartGroups == 1
MaxGateOps == 2
MaxUnlisted == 1
MaxTurn == 3

\* ------------------------------------------------- canonical index table
NdxTranslate == 0
NdxPivot == 1
NdxRotatePivotTranslate == 2
NdxRotatePivot == 3
NdxRotate == 4
NdxRotateAxis == 5
NdxRotatePivotInverse == 6
NdxScalePivotTranslate == 7
NdxScalePivot == 8
NdxShear == 9
NdxScale == 10
NdxScalePivotInverse == 11
NdxPivotInverse == 12

NbOpNdx == 13

Fwd(attr) == <<"", attr>>
Inv(attr) == <<"!invert!", attr>>

RotateNames ==
    { "xformOp:rotateX", "xformOp:rotateY", "xformOp:rotateZ",
      "xformOp:rotateXYZ", "xformOp:rotateXZY", "xformOp:rotateYXZ",
      "xformOp:rotateYZX", "xformOp:rotateZXY", "xformOp:rotateZYX",
      "xformOp:orient" }

\* gOpNameToNdx with the inverse of the scale pivot in the slot of the
\* scale pivot.
gOpNameToNdx_InverseInSlot ==
    [ n \in { Fwd("xformOp:translate"),
              Fwd("xformOp:translate:pivot"),
              Fwd("xformOp:translate:rotatePivotTranslate"),
              Fwd("xformOp:translate:rotatePivot"),
              Fwd("xformOp:rotateXYZ:rotateAxis"),
              Inv("xformOp:translate:rotatePivot"),
              Fwd("xformOp:translate:scalePivotTranslate"),
              Fwd("xformOp:translate:scalePivot"),
              Fwd("xformOp:transform:shear"),
              Fwd("xformOp:scale"),
              Inv("xformOp:translate:scalePivot"),
              Inv("xformOp:translate:pivot") }
            \cup { Fwd(r) : r \in RotateNames } |->
        CASE n = Fwd("xformOp:translate") -> NdxTranslate
          [] n = Fwd("xformOp:translate:pivot") -> NdxPivot
          [] n = Fwd("xformOp:translate:rotatePivotTranslate") -> NdxRotatePivotTranslate
          [] n = Fwd("xformOp:translate:rotatePivot") -> NdxRotatePivot
          [] n \in { Fwd(r) : r \in RotateNames } -> NdxRotate
          [] n = Fwd("xformOp:rotateXYZ:rotateAxis") -> NdxRotateAxis
          [] n = Inv("xformOp:translate:rotatePivot") -> NdxRotatePivotInverse
          [] n = Fwd("xformOp:translate:scalePivotTranslate") -> NdxScalePivotTranslate
          [] n = Fwd("xformOp:translate:scalePivot") -> NdxScalePivot
          [] n = Fwd("xformOp:transform:shear") -> NdxShear
          [] n = Fwd("xformOp:scale") -> NdxScale
          [] n = Inv("xformOp:translate:scalePivot") -> NdxScalePivot
          [] n = Inv("xformOp:translate:pivot") -> NdxPivotInverse ]

gOpNameToNdx ==
    [ n \in { Fwd("xformOp:translate"),
              Fwd("xformOp:translate:pivot"),
              Fwd("xformOp:translate:rotatePivotTranslate"),
              Fwd("xformOp:translate:rotatePivot"),
              Fwd("xformOp:rotateXYZ:rotateAxis"),
              Inv("xformOp:translate:rotatePivot"),
              Fwd("xformOp:translate:scalePivotTranslate"),
              Fwd("xformOp:translate:scalePivot"),
              Fwd("xformOp:transform:shear"),
              Fwd("xformOp:scale"),
              Inv("xformOp:translate:scalePivot"),
              Inv("xformOp:translate:pivot") }
            \cup { Fwd(r) : r \in RotateNames } |->
        CASE n = Fwd("xformOp:translate") -> NdxTranslate
          [] n = Fwd("xformOp:translate:pivot") -> NdxPivot
          [] n = Fwd("xformOp:translate:rotatePivotTranslate") -> NdxRotatePivotTranslate
          [] n = Fwd("xformOp:translate:rotatePivot") -> NdxRotatePivot
          [] n \in { Fwd(r) : r \in RotateNames } -> NdxRotate
          [] n = Fwd("xformOp:rotateXYZ:rotateAxis") -> NdxRotateAxis
          [] n = Inv("xformOp:translate:rotatePivot") -> NdxRotatePivotInverse
          [] n = Fwd("xformOp:translate:scalePivotTranslate") -> NdxScalePivotTranslate
          [] n = Fwd("xformOp:translate:scalePivot") -> NdxScalePivot
          [] n = Fwd("xformOp:transform:shear") -> NdxShear
          [] n = Fwd("xformOp:scale") -> NdxScale
          [] n = Inv("xformOp:translate:scalePivot") -> NdxScalePivotInverse
          [] n = Inv("xformOp:translate:pivot") -> NdxPivotInverse ]

\* The attributes a prim of the model can carry: those of the ops the
\* commands add and of the ops an entity starts with.
AttrNames ==
    { "xformOp:translate", "xformOp:translate:rotatePivotTranslate",
      "xformOp:translate:rotatePivot", "xformOp:rotateXYZ", "xformOp:rotateX",
      "xformOp:orient", "xformOp:rotateXYZ:rotateAxis",
      "xformOp:translate:scalePivotTranslate", "xformOp:translate:scalePivot",
      "xformOp:scale" }

\* UsdGeomXformOp::GetOpName(TypeTranslate, suffix): "" is the empty suffix.
TranslateOpName(suffix) ==
    IF suffix = "" THEN "xformOp:translate" ELSE "xformOp:translate:" \o suffix

\* getOpSuffix(ndx); .at() throws for an index without a suffix.
getOpSuffix(ndx) ==
    CASE ndx = NdxRotatePivotTranslate -> "rotatePivotTranslate"
      [] ndx = NdxRotatePivot -> "rotatePivot"
      [] ndx = NdxRotateAxis -> "rotateAxis"
      [] ndx = NdxScalePivotTranslate -> "scalePivotTranslate"
      [] ndx = NdxScalePivot -> "scalePivot"
      [] ndx = NdxShear -> "shear"

getTRSOpSuffix == ""

\* ------------------------------------------------------------ the prim
\* An attribute is absent, created but never written, or holds a value; a
\* value is the tuple of its components and the empty VtValue has none.
Empty == <<>>
Absent == [has |-> "absent", v |-> Empty]
NoValue == [has |-> "novalue", v |-> Empty]
Value(v) == [has |-> "value", v |-> v]
NoOp == "noop"
OrderAttr == "xformOpOrder"

Range(s) == { s[i] : i \in 1..Len(s) }

NoDuplicates(o) == \A i, j \in 1..Len(o) : o[i] = o[j] => i = j

\* UsdAttribute::operator bool: the attribute exists on the prim.
AttrValid(attrs, name) == name \in DOMAIN attrs /\ attrs[name] # Absent

\* UsdAttribute::HasValue.
HasValue(attrs, name) == AttrValid(attrs, name) /\ attrs[name].has = "value"

\* UsdGeomXformable::GetOrderedXformOps: the ops of xformOpOrder whose
\* attribute exists.
GetOrderedXformOps(order, attrs) ==
    LET Live(n) == AttrValid(attrs, n[2]) IN SelectSeq(order, Live)

\* A store under edit: the prim, whether the notification guard is held,
\* whether a change was suppressed under it, the xformOpOrder values that
\* observers were shown, in delivery order, and whether an undo block is
\* open.
Store(order, attrs) ==
    [order |-> order, attrs |-> attrs, guard |-> FALSE, pending |-> FALSE, log |-> <<>>,
     block |-> FALSE]

\* One authored change to the prim: observers are notified at once unless
\* the guard is held.
WriteStore(st, order, attrs) ==
    IF st.guard
    THEN [st EXCEPT !.order = order, !.attrs = attrs, !.pending = TRUE]
    ELSE [st EXCEPT !.order = order, !.attrs = attrs, !.log = Append(st.log, order)]

\* UsdUfe::InTransform3dChange: constructor and destructor.
GuardAcquire(st) == [st EXCEPT !.guard = TRUE]

GuardRelease(st) ==
    [st EXCEPT !.guard = FALSE, !.pending = FALSE,
               !.log = IF st.pending THEN Append(st.log, st.order) ELSE st.log]

\* UsdGeomXformable::AddXformOp: refuses an op name already in xformOpOrder,
\* otherwise creates the attribute when it is missing and appends the name.
AddXformOp(st, attr, inverse, fails) ==
    LET name == IF inverse THEN Inv(attr) ELSE Fwd(attr) IN
    IF fails \/ name \in Range(st.order)
    THEN [st |-> st, op |-> NoOp]
    ELSE [st |-> WriteStore(st, Append(st.order, name),
                            IF AttrValid(st.attrs, attr) THEN st.attrs
                            ELSE [st.attrs EXCEPT ![attr] = NoValue]),
          op |-> attr]

\* The std::map<OpNdx, UsdGeomXformOp> filled by orderedOps[ndx] = op: the
\* last op of each index, traversed by ascending index.
RECURSIVE MapTraverse(_, _)
MapTraverse(ops, ndx) ==
    IF ndx >= NbOpNdx THEN <<>>
    ELSE LET at == { i \in 1..Len(ops) : gOpNameToNdx[ops[i]] = ndx }
             last == CHOOSE i \in at : \A j \in at : j <= i
         IN (IF at = {} THEN <<>> ELSE <<ops[last]>>) \o MapTraverse(ops, ndx + 1)

\* The token of xformOpOrder that stands for the reset flag of the prim;
\* it names no attribute, so GetOrderedXformOps gives no op for it.
ResetToken == <<"", "!resetXformStack!">>

\* The resetsXformStack that GetOrderedXformOps reports.
resetsXformStack(order) == ResetToken \in Range(order)

\* UsdGeomXformable::SetXformOpOrder(ops, resetsXformStack): one write of
\* xformOpOrder.
SetXformOpOrder(st, newOrder, reset) ==
    WriteStore(st, (IF reset THEN <<ResetToken>> ELSE <<>>) \o newOrder, st.attrs)

\* setXformOpOrder(xformable): throws from gOpNameToNdx.at() on a name that
\* is not in the table, returns what SetXformOpOrder returns otherwise.
setXformOpOrder(st, fails) ==
    LET oldOrder == GetOrderedXformOps(st.order, st.attrs) IN
    IF \E i \in 1..Len(oldOrder) : oldOrder[i] \notin DOMAIN gOpNameToNdx
    THEN [st |-> st, ok |-> FALSE, threw |-> TRUE]
    ELSE IF fails
    THEN [st |-> st, ok |-> FALSE, threw |-> FALSE]
    ELSE [st |-> SetXformOpOrder(st, MapTraverse(oldOrder, 0),
                                 resetsXformStack(st.order)),
          ok |-> TRUE, threw |-> FALSE]

\* getXformOpOrderFn(): the reorder function the op functions capture.
getXformOpOrderFn(st, fails) == setXformOpOrder(st, fails)

\* getUsdPrimAttribute(prim, attrName): no lookup for the empty token.
getUsdPrimAttribute(attrs, attrName) ==
    IF attrName # "" /\ AttrValid(attrs, attrName) THEN attrName ELSE NoOp

\* --------------------------------------------------- undo transaction log
\* A UsdUndoableItem: nothing recorded, or the xformOpOrder before and after
\* the recorded edits and the attributes they created.
NoItem == [pre |-> <<>>, post |-> <<>>, created |-> {}, any |-> FALSE]

\* UsdUndoBlock(&undoableItem): on leaving the scope, by return or by throw,
\* the edits made inside it are recorded in the item.
UsdUndoBlock(item, before, after) ==
    IF before.order = after.order /\ before.attrs = after.attrs THEN item
    ELSE [pre |-> IF item.any THEN item.pre ELSE before.order,
          post |-> after.order,
          created |-> item.created \cup
                      { a \in DOMAIN after.attrs :
                          ~AttrValid(before.attrs, a) /\ AttrValid(after.attrs, a) },
          any |-> TRUE]

\* UsdUndoableItem::undo: the recorded edits are reverted as one change.
ItemUndo(st, item) ==
    IF ~item.any THEN st
    ELSE WriteStore(st, item.pre,
                    [a \in DOMAIN st.attrs |->
                        IF a \in item.created THEN Absent ELSE st.attrs[a]])

\* UsdUndoableItem::redo: the recorded edits are applied again as one change.
ItemRedo(st, item) ==
    IF ~item.any THEN st
    ELSE WriteStore(st, item.post,
                    [a \in DOMAIN st.attrs |->
                        IF a \in item.created /\ st.attrs[a] = Absent
                        THEN NoValue ELSE st.attrs[a]])

\* ----------------------------------------------------------- op functions
\* Failure points of the store on the create path.
FailPoints == { "none", "add", "addInv", "order" }

\* Entering the create scope: the undo block is opened, then the guard is
\* taken.
EnterScope(st) == GuardAcquire([st EXCEPT !.block = TRUE])

\* LeaveScope with the guard and the undo block let go on the return only.
LeaveScope_ReturnOnly(st0, st1, item, op, threw) ==
    [st |-> IF threw THEN st1 ELSE [GuardRelease(st1) EXCEPT !.block = FALSE],
     item |-> IF threw THEN item ELSE UsdUndoBlock(item, st0, st1),
     op |-> op, threw |-> threw,
     path |-> IF threw THEN "failed" ELSE "created"]

\* Leaving the create scope: the guard is destroyed first, then the undo
\* block, on the return and on the throw alike.
LeaveScope(st0, st1, item, op, threw) ==
    [st |-> [GuardRelease(st1) EXCEPT !.block = FALSE],
     item |-> UsdUndoBlock(item, st0, st1),
     op |-> op, threw |-> threw,
     path |-> IF threw THEN "failed" ELSE "created"]

Found(st, item, attr) ==
    [st |-> st, item |-> item, op |-> attr, threw |-> FALSE, path |-> "found"]

\* The OpFunc built by rotateCmd.
rotateOpFunc(st, item, attrName, opSuffix, fail) ==
    LET attr == getUsdPrimAttribute(st.attrs, attrName) IN
    IF attr # NoOp THEN Found(st, item, attr)
    ELSE LET r == AddXformOp(EnterScope(st),
                             IF opSuffix = "" THEN "xformOp:rotateXYZ"
                             ELSE "xformOp:rotateXYZ:" \o opSuffix,
                             FALSE, fail = "add")
         IN IF r.op = NoOp THEN LeaveScope(st, r.st, item, NoOp, TRUE)
            ELSE LET o == getXformOpOrderFn(r.st, fail = "order")
                 IN IF o.threw \/ ~o.ok THEN LeaveScope(st, o.st, item, NoOp, TRUE)
                    ELSE LeaveScope(st, o.st, item, r.op, FALSE)

\* The OpFunc built by scaleCmd.
scaleOpFunc(st, item, attrName, opSuffix, fail) ==
    LET attr == getUsdPrimAttribute(st.attrs, attrName) IN
    IF attr # NoOp THEN Found(st, item, attr)
    ELSE LET s == AddXformOp(EnterScope(st),
                             IF opSuffix = "" THEN "xformOp:scale"
                             ELSE "xformOp:scale:" \o opSuffix,
                             FALSE, fail = "add")
         IN IF s.op = NoOp THEN LeaveScope(st, s.st, item, NoOp, TRUE)
            ELSE LET o == getXformOpOrderFn(s.st, fail = "order")
                 IN IF o.threw \/ ~o.ok THEN LeaveScope(st, o.st, item, NoOp, TRUE)
                    ELSE LeaveScope(st, o.st, item, s.op, FALSE)

\* The OpFunc built by setVector3dCmd.
setVector3dOpFunc(st, item, attrName, opSuffix, fail) ==
    LET attr == getUsdPrimAttribute(st.attrs, attrName) IN
    IF attr # NoOp THEN Found(st, item, attr)
    ELSE LET op == AddXformOp(EnterScope(st), TranslateOpName(opSuffix),
                              FALSE, fail = "add")
         IN IF op.op = NoOp THEN LeaveScope(st, op.st, item, NoOp, TRUE)
            ELSE LET o == getXformOpOrderFn(op.st, fail = "order")
                 IN IF o.threw \/ ~o.ok THEN LeaveScope(st, o.st, item, NoOp, TRUE)
                    ELSE LeaveScope(st, o.st, item, op.op, FALSE)

\* pivotOpFunc with the inverse added under the suffix of the translate op.
pivotOpFunc_WrongInverse(st, item, pvtAttrName, pvtOpSuffix, fail) ==
    IF AttrValid(st.attrs, pvtAttrName) THEN Found(st, item, pvtAttrName)
    ELSE LET p == AddXformOp(EnterScope(st), TranslateOpName(pvtOpSuffix),
                             FALSE, fail = "add")
             pInv == AddXformOp(p.st, TranslateOpName(getTRSOpSuffix),
                                TRUE, fail = "addInv")
         IN IF ~(p.op # NoOp /\ pInv.op # NoOp)
            THEN LeaveScope(st, pInv.st, item, NoOp, TRUE)
            ELSE LET o == getXformOpOrderFn(pInv.st, fail = "order")
                 IN IF o.threw \/ ~o.ok THEN LeaveScope(st, o.st, item, NoOp, TRUE)
                    ELSE LeaveScope(st, o.st, item, p.op, FALSE)

\* pivotOpFunc with the guard taken only after the pivot was added.
pivotOpFunc_LateGuard(st, item, pvtAttrName, pvtOpSuffix, fail) ==
    IF AttrValid(st.attrs, pvtAttrName) THEN Found(st, item, pvtAttrName)
    ELSE LET p == AddXformOp([st EXCEPT !.block = TRUE],
                             TranslateOpName(pvtOpSuffix), FALSE, fail = "add")
             pInv == AddXformOp(GuardAcquire(p.st), TranslateOpName(pvtOpSuffix),
                                TRUE, fail = "addInv")
         IN IF ~(p.op # NoOp /\ pInv.op # NoOp)
            THEN LeaveScope(st, pInv.st, item, NoOp, TRUE)
            ELSE LET o == getXformOpOrderFn(pInv.st, fail = "order")
                 IN IF o.threw \/ ~o.ok THEN LeaveScope(st, o.st, item, NoOp, TRUE)
                    ELSE LeaveScope(st, o.st, item, p.op, FALSE)

\* The OpFunc built by pivotCmd: the inverse is added whether or not the
\* pivot was, and both results are tested together.
pivotOpFunc(st, item, pvtAttrName, pvtOpSuffix, fail) ==
    IF AttrValid(st.attrs, pvtAttrName) THEN Found(st, item, pvtAttrName)
    ELSE LET p == AddXformOp(EnterScope(st), TranslateOpName(pvtOpSuffix),
                             FALSE, fail = "add")
             pInv == AddXformOp(p.st, TranslateOpName(pvtOpSuffix),
                                TRUE, fail = "addInv")
         IN IF ~(p.op # NoOp /\ pInv.op # NoOp)
            THEN LeaveScope(st, pInv.st, item, NoOp, TRUE)
            ELSE LET o == getXformOpOrderFn(pInv.st, fail = "order")
                 IN IF o.threw \/ ~o.ok THEN LeaveScope(st, o.st, item, NoOp, TRUE)
                    ELSE LeaveScope(st, o.st, item, p.op, FALSE)

\* ------------------------------------------------------------ values
\* The (x, y, z) arguments the host passes: rotations about one axis.
Inputs == { <<k, 0, 0>> : k \in 1..MaxInput }

SingleAxisNames == { "xformOp:rotateX", "xformOp:rotateY", "xformOp:rotateZ" }

\* The value type an attribute of the stack holds.
AttrType(attr) ==
    CASE attr \in SingleAxisNames -> "float"
      [] attr = "xformOp:orient" -> "quat"
      [] attr = "xformOp:transform:shear" -> "matrix"
      [] OTHER -> "vec3"

ValueType(v) ==
    CASE Len(v) = 1 -> "float"
      [] Len(v) = 3 -> "vec3"
      [] Len(v) = 4 -> "quat"
      [] OTHER -> "matrix"

\* UsdAttribute::Set: a value of another type than the attribute's is
\* refused and nothing is written.
AttrSet(st, attr, v) ==
    IF ValueType(v) = AttrType(attr)
    THEN WriteStore(st, st.order, [st.attrs EXCEPT ![attr] = Value(v)])
    ELSE st

\* UsdAttribute::Get into a default-constructed VtValue.
AttrGet(attrs, attr) == IF HasValue(attrs, attr) THEN attrs[attr].v ELSE Empty

\* Angles count quarter turns.  A rotation is given by the images of the
\* three unit vectors, each <<axis, sign>>.
Axes == 1..3

Identity == << <<1, 1>>, <<2, 1>>, <<3, 1>> >>

Quarter(axis) ==
    CASE axis = 1 -> << <<1, 1>>, <<3, 1>>, <<2, -1>> >>
      [] axis = 2 -> << <<3, -1>>, <<2, 1>>, <<1, 1>> >>
      [] axis = 3 -> << <<2, 1>>, <<1, -1>>, <<3, 1>> >>

\* B, then A.
Compose(A, B) == [i \in Axes |-> <<A[B[i][1]][1], A[B[i][1]][2] * B[i][2]>>]

Turn(axis, q) ==
    CASE q % 4 = 0 -> Identity
      [] q % 4 = 1 -> Quarter(axis)
      [] q % 4 = 2 -> Compose(Quarter(axis), Quarter(axis))
      [] q % 4 = 3 -> Compose(Quarter(axis), Compose(Quarter(axis), Quarter(axis)))

\* The axes of a rotation order, first applied first.
AxisSeq(ord) ==
    CASE ord = "XYZ" -> <<1, 2, 3>>
      [] ord = "XZY" -> <<1, 3, 2>>
      [] ord = "YXZ" -> <<2, 1, 3>>
      [] ord = "YZX" -> <<2, 3, 1>>
      [] ord = "ZXY" -> <<3, 1, 2>>
      [] ord = "ZYX" -> <<3, 2, 1>>

EulerRot(s, a) ==
    Compose(Turn(s[3], a[s[3]]), Compose(Turn(s[2], a[s[2]]), Turn(s[1], a[s[1]])))

\* The rotation that the angles a about X, Y and Z make in rotation order ord.
EulerToRot(ord, a) == EulerRot(AxisSeq(ord), a)

TurnTriples == { <<x, y, z>> : x \in 0..3, y \in 0..3, z \in 0..3 }

\* MEulerRotation::reorderIt: angles that make the same rotation in the
\* other order.
reorderIt(a, src, dst) ==
    CHOOSE w \in TurnTriples : EulerToRot(dst, w) = EulerToRot(src, a)

\* The rotation order a conversion is for.
OrderOf(fn) ==
    CASE fn \in { "toXYZ", "fromXYZ" } -> "XYZ"
      [] fn \in { "toXZY", "fromXZY" } -> "XZY"
      [] fn \in { "toYXZ", "fromYXZ" } -> "YXZ"
      [] fn \in { "toYZX", "fromYZX" } -> "YZX"
      [] fn \in { "toZXY", "fromZXY" } -> "ZXY"
      [] fn \in { "toZYX", "fromZYX" } -> "ZYX"

\* toX .. toZYX of RotationUtils: a single-axis op stores the angle about
\* its axis, an XYZ op the three angles as passed, an op of another order
\* the angles reordered.
CvtRotXYZToAttr(fn, v) ==
    CASE fn = "toX" -> <<v[1]>>
      [] fn = "toY" -> <<v[2]>>
      [] fn = "toZ" -> <<v[3]>>
      [] fn = "toXYZ" -> v
      [] OTHER -> reorderIt(v, "XYZ", OrderOf(fn))

\* getCvtRotXYZToAttrFn(opName): "null" is the empty std::function stored
\* for xformOp:orient; .at() throws on any other name.
getCvtRotXYZToAttrFn(opName) ==
    CASE opName = "xformOp:rotateX" -> "toX"
      [] opName = "xformOp:rotateY" -> "toY"
      [] opName = "xformOp:rotateZ" -> "toZ"
      [] opName = "xformOp:rotateXYZ" -> "toXYZ"
      [] opName = "xformOp:rotateXZY" -> "toXZY"
      [] opName = "xformOp:rotateYXZ" -> "toYXZ"
      [] opName = "xformOp:rotateYZX" -> "toYZX"
      [] opName = "xformOp:rotateZXY" -> "toZXY"
      [] opName = "xformOp:rotateZYX" -> "toZYX"
      [] opName = "xformOp:orient" -> "null"

\* ---------------------------------------------------------- edit commands
Kinds == { "translate", "rotate", "scale", "rotatePivot", "scalePivot",
           "translateRotatePivot", "translateScalePivot" }

NoSnap == [order |-> <<>>, attrs |-> [a \in AttrNames |-> Absent], taken |-> FALSE]

Snap(st) == [order |-> st.order, attrs |-> st.attrs, taken |-> TRUE]

NoCmd ==
    [kind |-> "none", attrName |-> "", opSuffix |-> "", cvt |-> "",
     op |-> NoOp, newOpValue |-> Empty, initialOpValue |-> Empty,
     isPrepared |-> FALSE, canUpdateValue |-> FALSE, opCreated |-> FALSE,
     opCreationUndo |-> NoItem, before |-> NoSnap, after |-> NoSnap]

\* UsdTRSUndoableCmdBase / UsdSetXformOpUndoableCommandBase constructors.
\* before and after are history: the prim just before the command's first
\* value application and just after its latest one.
NewCmd(kind, v, attrName, opSuffix, cvt) ==
    [kind |-> kind, attrName |-> attrName, opSuffix |-> opSuffix, cvt |-> cvt,
     op |-> NoOp, newOpValue |-> v, initialOpValue |-> Empty,
     isPrepared |-> FALSE, canUpdateValue |-> TRUE, opCreated |-> FALSE,
     opCreationUndo |-> NoItem, before |-> NoSnap, after |-> NoSnap]

\* A call in progress on a command: the store, the command, whether an
\* exception is propagating, whether the op function ran, how it ended and
\* what observers were shown while it ran.
Call(st, cmd) ==
    [st |-> st, cmd |-> cmd, threw |-> FALSE, called |-> FALSE, path |-> "none",
     opLog |-> <<>>]

\* _opFunc(*this, undoableItem)
opFunc(cmd, st, fail) ==
    CASE cmd.kind = "rotate" ->
           rotateOpFunc(st, cmd.opCreationUndo, cmd.attrName, cmd.opSuffix, fail)
      [] cmd.kind = "scale" ->
           scaleOpFunc(st, cmd.opCreationUndo, cmd.attrName, cmd.opSuffix, fail)
      [] cmd.kind \in { "rotatePivot", "scalePivot" } ->
           pivotOpFunc(st, cmd.opCreationUndo, cmd.attrName, cmd.opSuffix, fail)
      [] OTHER ->
           setVector3dOpFunc(st, cmd.opCreationUndo, cmd.attrName, cmd.opSuffix, fail)

\* UsdGeomXformOp::operator bool on the cached _op.
OpValid(op, attrs) == op # NoOp /\ AttrValid(attrs, op)

\* _op = _opFunc(*this, undoableItem): r is what the op function left; a
\* throw leaves _op unassigned.
assignOp(m, r) ==
    [m EXCEPT !.st = r.st, !.threw = r.threw, !.called = TRUE, !.path = r.path,
              !.opLog = r.st.log,
              !.cmd.opCreationUndo = r.item,
              !.cmd.op = IF r.threw THEN m.cmd.op ELSE r.op]

\* createOpIfNeeded without the test of the held op.
createOpIfNeeded_Always(m, fail) ==
    assignOp(m, opFunc(m.cmd, m.st, fail))

\* UsdTRSUndoableCmdBase::createOpIfNeeded
createOpIfNeeded(m, fail) ==
    IF OpValid(m.cmd.op, m.st.attrs) THEN m
    ELSE assignOp(m, opFunc(m.cmd, m.st, fail))

\* setValue that clears the attribute when it is given the empty value.
setValue_ClearsOnEmpty(m, v) ==
    IF ~OpValid(m.cmd.op, m.st.attrs) THEN m
    ELSE IF v = Empty
    THEN [m EXCEPT !.st = WriteStore(m.st, m.st.order,
                                     [m.st.attrs EXCEPT ![m.cmd.op] = NoValue])]
    ELSE [m EXCEPT !.st = AttrSet(m.st, m.cmd.op, v)]

\* UsdTRSUndoableCmdBase::setValue
setValue(m, v) ==
    IF ~OpValid(m.cmd.op, m.st.attrs) THEN m
    ELSE IF v = Empty THEN m
    ELSE [m EXCEPT !.st = AttrSet(m.st, m.cmd.op, v)]

\* UsdTRSUndoableCmdBase::getValue
getValue(m) ==
    IF ~OpValid(m.cmd.op, m.st.attrs) THEN Empty
    ELSE AttrGet(m.st.attrs, m.cmd.op)

\* The rest of prepareOpIfNeeded once createOpIfNeeded is over: a throw
\* propagates, otherwise the initial value is read and the flags are set.
\* st0 is the store when prepareOpIfNeeded was entered.
captureInitial(m1, st0) ==
    IF m1.threw THEN m1
    ELSE [m1 EXCEPT !.cmd.initialOpValue = getValue(m1),
                    !.cmd.isPrepared = TRUE,
                    !.cmd.opCreated = TRUE,
                    !.cmd.before = Snap(st0)]

\* UsdSetXformOpUndoableCommandBase::prepareOpIfNeeded
prepareOpIfNeeded(m, fail) ==
    IF m.cmd.isPrepared THEN m
    ELSE captureInitial(createOpIfNeeded(m, fail), m.st)

\* The setValue(v) that ends prepareAndSet, skipped by a throw.
setPrepared(m1, v) == IF m1.threw THEN m1 ELSE setValue(m1, v)

\* UsdSetXformOpUndoableCommandBase::prepareAndSet
prepareAndSet(m, v, fail) ==
    IF v = Empty THEN m
    ELSE setPrepared(prepareOpIfNeeded(m, fail), v)

\* UsdSetXformOpUndoableCommandBase::recreateOpIfNeeded
recreateOpIfNeeded(m) ==
    IF ~m.cmd.isPrepared \/ m.cmd.opCreated THEN m
    ELSE [m EXCEPT !.st = ItemRedo(m.st, m.cmd.opCreationUndo),
                   !.cmd.opCreated = TRUE]

\* UsdSetXformOpUndoableCommandBase::removeOpIfNeeded
removeOpIfNeeded(m) ==
    IF ~m.cmd.isPrepared \/ ~m.cmd.opCreated THEN m
    ELSE [m EXCEPT !.st = ItemUndo(m.st, m.cmd.opCreationUndo),
                   !.cmd.opCreated = FALSE]

\* _canUpdateValue = true at the end of execute and redo, skipped by a throw.
allowUpdate(m1) ==
    IF m1.threw THEN m1 ELSE [m1 EXCEPT !.cmd.canUpdateValue = TRUE]

\* UsdSetXformOpUndoableCommandBase::execute
execute(m, fail) == allowUpdate(prepareAndSet(m, m.cmd.newOpValue, fail))

\* undo without the test for a command that was never prepared.
undo_Unguarded(m) ==
    LET m1 == recreateOpIfNeeded(m)
        m2 == setValue(m1, m1.cmd.initialOpValue)
        m3 == removeOpIfNeeded(m2)
    IN [m3 EXCEPT !.cmd.canUpdateValue = FALSE]

\* UsdSetXformOpUndoableCommandBase::undo
undo(m) ==
    IF ~m.cmd.isPrepared THEN m
    ELSE LET m1 == recreateOpIfNeeded(m)
             m2 == setValue(m1, m1.cmd.initialOpValue)
             m3 == removeOpIfNeeded(m2)
         IN [m3 EXCEPT !.cmd.canUpdateValue = FALSE]

\* UsdSetXformOpUndoableCommandBase::redo
redo(m, fail) ==
    allowUpdate(prepareAndSet(recreateOpIfNeeded(m), m.cmd.newOpValue, fail))

\* UsdSetXformOpUndoableCommandBase::updateNewValue
updateNewValue(m, v, fail) ==
    LET m1 == recreateOpIfNeeded(m)
        newOpValue == IF m1.cmd.canUpdateValue THEN v ELSE m1.cmd.newOpValue
    IN prepareAndSet([m1 EXCEPT !.cmd.newOpValue = newOpValue], newOpValue, fail)

\* UsdVecOpUndoableCmd::set and UsdRotateOpUndoableCmd::set: calling the
\* empty std::function throws before anything else happens.
set(m, xyz, fail) ==
    IF m.cmd.kind = "rotate"
    THEN IF m.cmd.cvt = "null" THEN [m EXCEPT !.threw = TRUE]
         ELSE updateNewValue(m, CvtRotXYZToAttr(m.cmd.cvt, xyz), fail)
    ELSE updateNewValue(m, xyz, fail)

\* ------------------------------------------------------------- the stack
\* getOrderedOps / hasOp / getOp
getOrderedOps(order, attrs) == MapTraverse(GetOrderedXformOps(order, attrs), 0)

hasOp(order, attrs, ndx) ==
    \E n \in Range(getOrderedOps(order, attrs)) : gOpNameToNdx[n] = ndx

getOp(order, attrs, ndx) ==
    CHOOSE n \in Range(getOrderedOps(order, attrs)) : gOpNameToNdx[n] = ndx

\* UsdGeomXformOp::GetOpName as a token.
GetOpName(n) == n[1] \o n[2]

\* isAttributeEditAllowed without the test of the order attribute.
isAttributeEditAllowed_AttrOnly(attrs, locked, attrName) ==
    ~(attrName # "" /\ AttrValid(attrs, attrName) /\ attrName \in locked)

\* fromX .. fromZYX of RotationUtils, on the stored value of the attribute.
CvtRotXYZFromAttr(fn, value) ==
    CASE fn = "fromX" -> <<value[1], 0, 0>>
      [] fn = "fromY" -> <<0, value[1], 0>>
      [] fn = "fromZ" -> <<0, 0, value[1]>>
      [] fn = "fromXYZ" -> value
      [] OTHER -> reorderIt(value, OrderOf(fn), "XYZ")

\* getCvtRotXYZFromAttrFn with the conversions of Y and Z exchanged.
getCvtRotXYZFromAttrFn_Swapped(opName) ==
    CASE opName = "xformOp:rotateX" -> "fromX"
      [] opName = "xformOp:rotateY" -> "fromZ"
      [] opName = "xformOp:rotateZ" -> "fromY"
      [] opName = "xformOp:rotateXYZ" -> "fromXYZ"
      [] opName = "xformOp:rotateXZY" -> "fromXZY"
      [] opName = "xformOp:rotateYXZ" -> "fromYXZ"
      [] opName = "xformOp:rotateYZX" -> "fromYZX"
      [] opName = "xformOp:rotateZXY" -> "fromZXY"
      [] opName = "xformOp:rotateZYX" -> "fromZYX"
      [] opName = "xformOp:orient" -> "null"

\* getCvtRotXYZFromAttrFn(opName): "null" is the empty std::function stored
\* for xformOp:orient; .at() throws on any other name.
getCvtRotXYZFromAttrFn(opName) ==
    CASE opName = "xformOp:rotateX" -> "fromX"
      [] opName = "xformOp:rotateY" -> "fromY"
      [] opName = "xformOp:rotateZ" -> "fromZ"
      [] opName = "xformOp:rotateXYZ" -> "fromXYZ"
      [] opName = "xformOp:rotateXZY" -> "fromXZY"
      [] opName = "xformOp:rotateYXZ" -> "fromYXZ"
      [] opName = "xformOp:rotateYZX" -> "fromYZX"
      [] opName = "xformOp:rotateZXY" -> "fromZXY"
      [] opName = "xformOp:rotateZYX" -> "fromZYX"
      [] opName = "xformOp:orient" -> "null"

\* What a read accessor gives: a vector, or the exception it ends with.
Returned(v) == [threw |-> FALSE, v |-> v]

Thrown == [threw |-> TRUE, v |-> <<>>]

\* getVector3d<V>(attrName): the attribute is fetched from the prim by name.
getVector3d(attrs, attrName) ==
    IF ~AttrValid(attrs, attrName) \/ ~HasValue(attrs, attrName)
    THEN Returned(<<0, 0, 0>>)
    ELSE Returned(attrs[attrName].v)

translation(order, attrs) == getVector3d(attrs, TranslateOpName(getTRSOpSuffix))

\* The end of rotation(): calling the empty std::function throws
\* std::bad_function_call.
rotationOf(attrs, r) ==
    IF ~HasValue(attrs, r[2]) THEN Returned(<<0, 0, 0>>)
    ELSE IF getCvtRotXYZFromAttrFn(GetOpName(r)) = "null" THEN Thrown
    ELSE Returned(CvtRotXYZFromAttr(getCvtRotXYZFromAttrFn(GetOpName(r)),
                                    AttrGet(attrs, r[2])))

rotation(order, attrs) ==
    IF ~hasOp(order, attrs, NdxRotate) THEN Returned(<<0, 0, 0>>)
    ELSE rotationOf(attrs, getOp(order, attrs, NdxRotate))

scaleOf(attrs, s) ==
    IF ~HasValue(attrs, s[2]) THEN Returned(<<1, 1, 1>>)
    ELSE Returned(attrs[s[2]].v)

scale(order, attrs) ==
    IF ~hasOp(order, attrs, NdxScale) THEN Returned(<<1, 1, 1>>)
    ELSE scaleOf(attrs, getOp(order, attrs, NdxScale))

rotatePivot(order, attrs) ==
    getVector3d(attrs, TranslateOpName(getOpSuffix(NdxRotatePivot)))

scalePivot(order, attrs) ==
    getVector3d(attrs, TranslateOpName(getOpSuffix(NdxScalePivot)))

rotatePivotTranslation(order, attrs) ==
    getVector3d(attrs, TranslateOpName(getOpSuffix(NdxRotatePivotTranslate)))

scalePivotTranslation(order, attrs) ==
    getVector3d(attrs, TranslateOpName(getOpSuffix(NdxScalePivotTranslate)))

\* The read accessor that goes with each kind of edit.
Accessor(kind, order, attrs) ==
    CASE kind = "translate" -> translation(order, attrs)
      [] kind = "rotate" -> rotation(order, attrs)
      [] kind = "scale" -> scale(order, attrs)
      [] kind = "rotatePivot" -> rotatePivot(order, attrs)
      [] kind = "scalePivot" -> scalePivot(order, attrs)
      [] kind = "translateRotatePivot" -> rotatePivotTranslation(order, attrs)
      [] kind = "translateScalePivot" -> scalePivotTranslation(order, attrs)

\* UsdGeomXformOp::GetName: the name of the op's attribute, which never
\* carries the inverse prefix.
GetName(n) == n[2]

\* hasValidSuffix: the table is searched for the attribute name.
hasValidSuffix(xformOps) ==
    \A i \in 1..Len(xformOps) :
        \E k \in DOMAIN gOpNameToNdx : GetOpName(k) = GetName(xformOps[i])

\* UsdMayaXformStack::MayaStack().MatchingSubstack: the ops when each one is
\* an op of the Maya stack, they come in stack order and every pivot comes
\* with its inverse; empty otherwise.
MatchingSubstack(xformOps) ==
    IF /\ \A i \in 1..Len(xformOps) : xformOps[i] \in DOMAIN gOpNameToNdx
       /\ \A i, j \in 1..Len(xformOps) :
            i < j => gOpNameToNdx[xformOps[i]] < gOpNameToNdx[xformOps[j]]
       /\ \A n \in DOMAIN gOpNameToNdx :
            Inv(n[2]) \in DOMAIN gOpNameToNdx
                => (Fwd(n[2]) \in Range(xformOps) <=> Inv(n[2]) \in Range(xformOps))
    THEN xformOps
    ELSE <<>>

\* createTransform3d without the test for an item that has no ops.
createTransform3d_NoEmptyTest(item, order, attrs) ==
    IF ~item.usd \/ ~item.xformable THEN "null"
    ELSE IF ~hasValidSuffix(GetOrderedXformOps(order, attrs)) THEN "next"
    ELSE IF MatchingSubstack(GetOrderedXformOps(order, attrs)) = <<>>
    THEN "next" ELSE "create"

\* createTransform3d with the two outcomes of the last test exchanged.
createTransform3d_Swapped(item, order, attrs) ==
    IF ~item.usd \/ ~item.xformable THEN "null"
    ELSE IF GetOrderedXformOps(order, attrs) = <<>> THEN "create"
    ELSE IF ~hasValidSuffix(GetOrderedXformOps(order, attrs)) THEN "next"
    ELSE IF MatchingSubstack(GetOrderedXformOps(order, attrs)) = <<>>
    THEN "create" ELSE "next"

\* createTransform3d: "null", "create" (a stack is made for the item) or
\* "next" (the next handler is asked).
createTransform3d(item, order, attrs) ==
    IF ~item.usd \/ ~item.xformable THEN "null"
    ELSE IF GetOrderedXformOps(order, attrs) = <<>> THEN "create"
    ELSE IF ~hasValidSuffix(GetOrderedXformOps(order, attrs)) THEN "next"
    ELSE IF MatchingSubstack(GetOrderedXformOps(order, attrs)) = <<>>
    THEN "next" ELSE "create"

\* UsdTransform3dMayaXformStackHandler::transform3d
transform3d(item, order, attrs) == createTransform3d(item, order, attrs)

\* What a call that dereferences a null pointer may end as.
Undefined == { "crash", "null", "create", "next" }

\* editTransform3d without the test of the edit target layer.
editTransform3d_NoLayerTest(item, order, attrs, ub) ==
    IF ~item.usd THEN ub
    ELSE IF item.instanceProxy THEN "null"
    ELSE createTransform3d(item, order, attrs)

\* UsdTransform3dMayaXformStackHandler::editTransform3d: the result of the
\* cast is dereferenced untested, so the behaviour is undefined (ub) for
\* an item that is not a USD scene item.
editTransform3d(item, order, attrs, ub) ==
    IF ~item.usd THEN ub
    ELSE IF item.instanceProxy THEN "null"
    ELSE IF ~item.layerModifiable THEN "null"
    ELSE createTransform3d(item, order, attrs)

\* UsdTransform3dMayaXformStack::isAttributeEditAllowed; locked holds the
\* attributes UsdUfe::isAttributeEditAllowed refuses.
isAttributeEditAllowed(attrs, locked, attrName) ==
    LET attr == attrName # "" /\ AttrValid(attrs, attrName) IN
    IF attr /\ attrName \in locked THEN FALSE
    ELSE IF ~attr /\ OrderAttr \in locked THEN FALSE
    ELSE TRUE

\* setVector3dCmd
setVector3dCmd(kind, attrs, locked, v, attrName, opSuffix) ==
    IF ~isAttributeEditAllowed(attrs, locked, attrName) THEN NoCmd
    ELSE NewCmd(kind, v, attrName, opSuffix, "vec")

\* translateCmd
translateCmd(order, attrs, locked, v) ==
    setVector3dCmd("translate", attrs, locked, v,
                   TranslateOpName(getTRSOpSuffix), getTRSOpSuffix)

\* rotateCmd with the conversion of a single-axis op where the prim has no
\* rotate op.
rotateCmd_DefaultToX(order, attrs, locked, v) ==
    LET hasRotate == hasOp(order, attrs, NdxRotate)
        attrName == IF hasRotate THEN GetOpName(getOp(order, attrs, NdxRotate)) ELSE ""
    IN IF ~isAttributeEditAllowed(attrs, locked, attrName) THEN NoCmd
       ELSE NewCmd("rotate", v, attrName, getTRSOpSuffix,
                   IF hasRotate THEN getCvtRotXYZToAttrFn(attrName) ELSE "toX")

\* rotateCmd: the new value is stored as passed, the conversion is kept
\* for set().
rotateCmd(order, attrs, locked, v) ==
    LET hasRotate == hasOp(order, attrs, NdxRotate)
        attrName == IF hasRotate THEN GetOpName(getOp(order, attrs, NdxRotate)) ELSE ""
    IN IF ~isAttributeEditAllowed(attrs, locked, attrName) THEN NoCmd
       ELSE NewCmd("rotate", v, attrName, getTRSOpSuffix,
                   IF hasRotate THEN getCvtRotXYZToAttrFn(attrName) ELSE "toXYZ")

\* scaleCmd
scaleCmd(order, attrs, locked, v) ==
    LET attrName == IF hasOp(order, attrs, NdxScale)
                    THEN GetOpName(getOp(order, attrs, NdxScale)) ELSE ""
    IN IF ~isAttributeEditAllowed(attrs, locked, attrName) THEN NoCmd
       ELSE NewCmd("scale", v, attrName, getTRSOpSuffix, "vec")

\* pivotCmd
pivotCmd(kind, attrs, locked, pvtOpSuffix, v) ==
    LET pvtAttrName == TranslateOpName(pvtOpSuffix) IN
    IF ~isAttributeEditAllowed(attrs, locked, pvtAttrName) THEN NoCmd
    ELSE NewCmd(kind, v, pvtAttrName, pvtOpSuffix, "vec")

\* The seven command factories of the stack.
CmdFactory(kind, order, attrs, locked, v) ==
    CASE kind = "translate" -> translateCmd(order, attrs, locked, v)
      [] kind = "rotate" -> rotateCmd(order, attrs, locked, v)
      [] kind = "scale" -> scaleCmd(order, attrs, locked, v)
      [] kind = "rotatePivot" ->
           pivotCmd(kind, attrs, locked, getOpSuffix(NdxRotatePivot), v)
      [] kind = "scalePivot" ->
           pivotCmd(kind, attrs, locked, getOpSuffix(NdxScalePivot), v)
      [] kind = "translateRotatePivot" ->
           setVector3dCmd(kind, attrs, locked, v,
                          TranslateOpName(getOpSuffix(NdxRotatePivotTranslate)),
                          getOpSuffix(NdxRotatePivotTranslate))
      [] kind = "translateScalePivot" ->
           setVector3dCmd(kind, attrs, locked, v,
                          TranslateOpName(getOpSuffix(NdxScalePivotTranslate)),
                          getOpSuffix(NdxScalePivotTranslate))

\* ------------------------------------------------------------ the system
\* order, attrs: the prim.  cmd: the command the host holds.  last: the
\* latest call.
VARIABLES order, attrs, cmd, last

vars == <<order, attrs, cmd, last>>

\* Where the command is: "none", "fresh" (no value applied yet), "done"
\* (applied) or "undone".
StatusOf(c) ==
    IF c = NoCmd THEN "none"
    ELSE IF ~c.isPrepared THEN "fresh"
    ELSE IF c.opCreated THEN "done"
    ELSE "undone"

status == StatusOf(cmd)

\* The ops of an entity the selection gate accepts come in these groups: a
\* pivot is authored with its inverse.
StartGroups ==
    { { Fwd("xformOp:translate") },
      { Fwd("xformOp:translate:rotatePivotTranslate") },
      { Fwd("xformOp:translate:rotatePivot"), Inv("xformOp:translate:rotatePivot") },
      { Fwd("xformOp:rotateXYZ") },
      { Fwd("xformOp:rotateX") },
      { Fwd("xformOp:orient") },
      { Fwd("xformOp:rotateXYZ:rotateAxis") },
      { Fwd("xformOp:translate:scalePivot"), Inv("xformOp:translate:scalePivot") },
      { Fwd("xformOp:scale") } }

\* The names of a set, one per index, by ascending index.
RECURSIVE CanonicalSeq(_, _)
CanonicalSeq(S, ndx) ==
    IF ndx >= NbOpNdx THEN <<>>
    ELSE LET at == { n \in S : gOpNameToNdx[n] = ndx }
         IN (IF at = {} THEN <<>> ELSE <<CHOOSE n \in at : TRUE>>)
            \o CanonicalSeq(S, ndx + 1)

StartSets ==
    { UNION G : G \in { H \in SUBSET StartGroups :
                          /\ Cardinality(H) <= MaxStartGroups
                          /\ \A g1, g2 \in H :
                               g1 # g2 => \A a \in g1, b \in g2 :
                                            gOpNameToNdx[a] # gOpNameToNdx[b] } }

DefaultValue(attr) ==
    CASE AttrType(attr) = "float" -> Value(<<0>>)
      [] AttrType(attr) = "vec3" -> Value(<<0, 0, 0>>)
      [] AttrType(attr) = "quat" -> Value(<<1, 0, 0, 0>>)
      [] OTHER -> Value(<<1, 0, 0, 1>> \o <<0>>)

\* The attributes that refuse edits when a factory is called.
LockChoices == { {}, { OrderAttr }, AttrNames }

\* The value another command commits; no input of the held command equals it.
OtherInput == <<MaxInput + 1, 0, 0>>

\* What the handler is told of the item it is handed: whether it is a USD
\* scene item, whether its prim is transformable, whether its prim is an
\* instance proxy and whether the edit target layer of its stage can be
\* modified.
NoItemFlags ==
    [usd |-> TRUE, xformable |-> TRUE, instanceProxy |-> FALSE, layerModifiable |-> TRUE]

\* last records the latest call: which, where the command was before it,
\* whether it threw, whether it ran the op function and how that ended, the
\* xformOpOrder values shown to observers during the op function and during
\* the whole call, for a factory which one it was and the attributes that
\* refused edits, for a read accessor what it returned, and for a conversion
\* its argument, the value to store and the value read back; which of the
\* notification guard and the undo block are held when the call is over.
NoLast ==
    [act |-> "init", from |-> "none", threw |-> FALSE, called |-> FALSE,
     path |-> "none", opLog |-> <<>>, log |-> <<>>, locked |-> {}, kind |-> "none",
     item |-> NoItemFlags, v |-> <<>>, arg |-> <<>>, stored |-> <<>>, held |-> {}]

Init ==
    /\ \E S \in StartSets :
         /\ order = CanonicalSeq(S, 0)
         /\ \E unwritten \in { {}, { n[2] : n \in S } } :
              attrs = [a \in AttrNames |->
                         IF a \notin { n[2] : n \in S } THEN Absent
                         ELSE IF a \in unwritten THEN NoValue
                         ELSE DefaultValue(a)]
    /\ cmd = NoCmd
    /\ last = NoLast

\* What is still held when a call is over.
Held(st) ==
    (IF st.guard THEN { "guard" } ELSE {}) \cup (IF st.block THEN { "block" } ELSE {})

\* The outcome of a call on the command becomes the new state.
Finish(act, m) ==
    LET applied == /\ act \in { "set", "execute", "redo" }
                   /\ ~m.threw /\ StatusOf(m.cmd) = "done"
    IN
    /\ order' = m.st.order
    /\ attrs' = m.st.attrs
    /\ cmd' = IF applied THEN [m.cmd EXCEPT !.after = Snap(m.st)] ELSE m.cmd
    /\ last' = [act |-> act, from |-> status, threw |-> m.threw, called |-> m.called,
                path |-> m.path, opLog |-> m.opLog, log |-> m.st.log, locked |-> {},
                kind |-> "none", item |-> NoItemFlags, v |-> <<>>, arg |-> <<>>,
                stored |-> <<>>, held |-> Held(m.st)]

\* A factory of the stack is called while the attributes of locked refuse
\* edits; the host keeps the command unless the factory returned none.
Factory(kind, v, locked) ==
    /\ status = "none"
    /\ cmd' = CmdFactory(kind, order, attrs, locked, v)
    /\ last' = [NoLast EXCEPT !.act = "factory", !.locked = locked, !.kind = kind]
    /\ UNCHANGED <<order, attrs>>

\* The store can refuse only a write the call makes: the op function runs
\* on a command that is not prepared, and only a pivot adds an inverse.
Refusable(fail) ==
    \/ fail = "none"
    \/ /\ ~cmd.isPrepared
       /\ fail = "addInv" => cmd.kind \in { "rotatePivot", "scalePivot" }

Set(v, fail) ==
    /\ status # "none"
    /\ Refusable(fail)
    /\ Finish("set", set(Call(Store(order, attrs), cmd), v, fail))

Execute(fail) ==
    /\ status # "none"
    /\ Refusable(fail)
    /\ Finish("execute", execute(Call(Store(order, attrs), cmd), fail))

Undo ==
    /\ status # "none"
    /\ Finish("undo", undo(Call(Store(order, attrs), cmd)))

Redo(fail) ==
    /\ status # "none"
    /\ Refusable(fail)
    /\ Finish("redo", redo(Call(Store(order, attrs), cmd), fail))

\* Another command for the same slot is built and committed while the
\* host's command has not been applied yet.
\* The other command exists and its execute returned.
Committed(m) ==
    /\ m.cmd.kind # NoCmd.kind
    /\ ~m.threw
    /\ order' = m.st.order
    /\ attrs' = m.st.attrs
    /\ last' = [NoLast EXCEPT !.act = "other"]
    /\ UNCHANGED cmd

OtherCommit ==
    /\ status = "fresh"
    /\ Committed(execute(Call(Store(order, attrs),
                               CmdFactory(cmd.kind, order, attrs, {}, OtherInput)),
                          "none"))

Next ==
    \/ \E k \in Kinds, v \in Inputs, l \in LockChoices : Factory(k, v, l)
    \/ \E v \in Inputs, f \in FailPoints : Set(v, f)
    \/ \E f \in FailPoints : Execute(f)
    \/ Undo
    \/ \E f \in FailPoints : Redo(f)
    \/ OtherCommit

Spec == Init /\ [][Next]_vars

\* The same system over a store that never refuses a write.
NextReliable ==
    \/ \E k \in Kinds, v \in Inputs, l \in LockChoices : Factory(k, v, l)
    \/ \E v \in Inputs : Set(v, "none")
    \/ Execute("none")
    \/ Undo
    \/ Redo("none")
    \/ OtherCommit

SpecReliable == Init /\ [][NextReliable]_vars

\* ------------------------------------------------------ the selection gate
\* The op names entities handed to the gate are built from: ops of the
\* stack, inverses the table does not hold, and a name it does not hold.
GateAttrs ==
    { "xformOp:translate", "xformOp:translate:rotatePivot", "xformOp:rotateX",
      "xformOp:scale", "xformOp:translate:offset" }

GateNames == { Fwd(a) : a \in GateAttrs } \cup { Inv(a) : a \in GateAttrs }

RECURSIVE GateLists(_)
GateLists(len) ==
    IF len = 0 THEN { <<>> }
    ELSE GateLists(len - 1) \cup
         { Append(l, n) : l \in { k \in GateLists(len - 1) : Len(k) = len - 1 },
                          n \in GateNames }

InitGate ==
    /\ order \in { l \in GateLists(MaxGateOps) : NoDuplicates(l) }
    /\ attrs = [a \in GateAttrs |->
                  IF a \in { n[2] : n \in Range(order) }
                  THEN Value(<<0, 0, 0>>) ELSE Absent]
    /\ cmd = NoCmd
    /\ last = NoLast

\* The handler is asked for the Transform3d interface of an item.
Transform3d(item) ==
    /\ last' = [NoLast EXCEPT !.act = "transform3d", !.item = item,
                              !.path = transform3d(item, order, attrs)]
    /\ UNCHANGED <<order, attrs, cmd>>

\* The handler is asked for the Transform3d interface to edit an item
\* with; kind tells which function of the next handler was called.
EditTransform3d(item, ub) ==
    /\ last' = [NoLast EXCEPT
                  !.act = "editTransform3d", !.item = item,
                  !.path = editTransform3d(item, order, attrs, ub),
                  !.kind = IF item.usd /\ editTransform3d(item, order, attrs, ub) = "next"
                           THEN "editTransform3d" ELSE "none"]
    /\ UNCHANGED <<order, attrs, cmd>>

ItemFlags ==
    [usd : BOOLEAN, xformable : BOOLEAN, instanceProxy : BOOLEAN,
     layerModifiable : BOOLEAN]

NextGate ==
    \/ \E item \in ItemFlags : Transform3d(item)
    \/ \E item \in ItemFlags :
         \E ub \in (IF item.usd THEN { "crash" } ELSE Undefined) :
            EditTransform3d(item, ub)

SpecGate == InitGate /\ [][NextGate]_vars

\* ------------------------------------------------------ the read accessors
\* A value an attribute of the prim holds when the stack is made for it;
\* none is the default an accessor falls back to.
StoredValue(attr) ==
    CASE AttrType(attr) = "float" -> Value(<<MaxInput>>)
      [] AttrType(attr) = "vec3" -> Value(<<MaxInput, 0, 0>>)
      [] AttrType(attr) = "quat" -> Value(<<0, 1, 0, 0>>)
      [] OTHER -> Value(<<1, 0, 0, 1>> \o <<MaxInput>>)

\* The prim of an accepted item: its ops are listed in stack order; up to
\* MaxUnlisted more attributes exist on the prim without being listed in
\* xformOpOrder; the attributes have all been written or none has.
InitRead ==
    /\ \E S \in StartSets :
         /\ order = CanonicalSeq(S, 0)
         /\ \E unlisted \in { U \in SUBSET AttrNames : Cardinality(U) <= MaxUnlisted },
               written \in BOOLEAN :
              attrs = [a \in AttrNames |->
                         IF a \notin { n[2] : n \in S } \cup unlisted THEN Absent
                         ELSE IF written THEN StoredValue(a)
                         ELSE NoValue]
    /\ cmd = NoCmd
    /\ last = NoLast

Read(kind) ==
    /\ last' = [NoLast EXCEPT !.act = "read", !.kind = kind,
                              !.threw = Accessor(kind, order, attrs).threw,
                              !.v = Accessor(kind, order, attrs).v]
    /\ UNCHANGED <<order, attrs, cmd>>

NextRead == \E kind \in Kinds : Read(kind)

SpecRead == InitRead /\ [][NextRead]_vars

\* ------------------------------------------------------- the reorder step
\* Names the table resolves, two of them to the rotate position.
ReorderNames ==
    { Fwd("xformOp:translate"), Fwd("xformOp:translate:rotatePivot"),
      Fwd("xformOp:rotateX"), Fwd("xformOp:rotateXYZ"),
      Inv("xformOp:translate:rotatePivot"), Fwd("xformOp:scale") }

RECURSIVE ReorderLists(_)
ReorderLists(len) ==
    IF len = 0 THEN { <<>> }
    ELSE ReorderLists(len - 1) \cup
         { Append(l, n) : l \in { k \in ReorderLists(len - 1) : Len(k) = len - 1 },
                          n \in ReorderNames }

\* A prim whose op list holds resolvable ops in any order, with or without
\* the reset flag.
InitReorder ==
    /\ \E l \in { k \in ReorderLists(MaxGateOps) : NoDuplicates(k) }, reset \in BOOLEAN :
         order = (IF reset THEN <<ResetToken>> ELSE <<>>) \o l
    /\ attrs = [a \in AttrNames |->
                  IF a \in { n[2] : n \in Range(order) } THEN NoValue ELSE Absent]
    /\ cmd = NoCmd
    /\ last = NoLast

ReorderDone(r) ==
    /\ order' = r.st.order
    /\ last' = [NoLast EXCEPT !.act = "reorder", !.threw = r.threw, !.log = r.st.log,
                              !.path = IF r.ok THEN "ok" ELSE "refused"]
    /\ UNCHANGED <<attrs, cmd>>

\* setXformOpOrder is called on the prim; the store may refuse the write.
Reorder(fails) == ReorderDone(setXformOpOrder(Store(order, attrs), fails))

NextReorder == \E fails \in BOOLEAN : Reorder(fails)

SpecReorder == InitReorder /\ [][NextReorder]_vars

\* ---------------------------------------------------- the rotation codec
\* The encodings that have conversions.
SupportedNames == RotateNames \ { "xformOp:orient" }

\* The name of an op and the angles to convert for it.
InitCodec ==
    /\ order = <<>>
    /\ attrs = [a \in AttrNames |-> Absent]
    /\ cmd = NoCmd
    /\ \E opName \in SupportedNames, x, y, z \in 0..MaxTurn :
         last = [NoLast EXCEPT !.kind = opName, !.arg = <<x, y, z>>]

\* Angles go to the storage of an op of the given name and come back, as
\* set() and rotation() convert them.
Convert(opName, xyz) ==
    /\ last.act = "init"
    /\ last' = [NoLast EXCEPT
                  !.act = "convert", !.kind = opName, !.arg = xyz,
                  !.stored = CvtRotXYZToAttr(getCvtRotXYZToAttrFn(opName), xyz),
                  !.v = CvtRotXYZFromAttr(
                            getCvtRotXYZFromAttrFn(opName),
                            CvtRotXYZToAttr(getCvtRotXYZToAttrFn(opName), xyz))]
    /\ UNCHANGED <<order, attrs, cmd>>

NextCodec == Convert(last.kind, last.arg)

SpecCodec == InitCodec /\ [][NextCodec]_vars

\* ------------------------------------------------------------ properties
StrictlyIncreasing(o) ==
    \A i, j \in 1..Len(o) : i < j => gOpNameToNdx[o[i]] < gOpNameToNdx[o[j]]

\* The canonical position a command of each kind edits.
TargetNdx(kind) ==
    CASE kind = "translate" -> NdxTranslate
      [] kind = "rotate" -> NdxRotate
      [] kind = "scale" -> NdxScale
      [] kind = "rotatePivot" -> NdxRotatePivot
      [] kind = "scalePivot" -> NdxScalePivot
      [] kind = "translateRotatePivot" -> NdxRotatePivotTranslate
      [] kind = "translateScalePivot" -> NdxScalePivotTranslate

PivotAttrs == { "xformOp:translate:rotatePivot", "xformOp:translate:scalePivot" }

Paired(o) == \A p \in PivotAttrs : Fwd(p) \in Range(o) <=> Inv(p) \in Range(o)

Prim == [order |-> order, attrs |-> attrs, taken |-> TRUE]

\* C1: after every call of a command's op function that created an op or
\* found one, the authored list is strictly increasing in canonical position.
C1_OrderAfterEnsure ==
    (last.called /\ last.path \in { "created", "found" })
        => StrictlyIncreasing(order)

\* C2: between calls and at every notification, a pivot is in the authored
\* list exactly when its inverse is, and a committed pivot command leaves both.
C2_PivotPaired ==
    /\ Paired(order)
    /\ \A i \in 1..Len(last.log) : Paired(last.log[i])
    /\ (/\ cmd.kind \in { "rotatePivot", "scalePivot" }
        /\ last.act \in { "set", "execute", "redo" } /\ ~last.threw
        /\ status = "done")
       => { Fwd(cmd.attrName), Inv(cmd.attrName) } \subseteq Range(order)

\* C3: when the op function runs while an op exists at the command's
\* position, it returns that op, adds nothing, leaves the order alone,
\* notifies nobody and does not fail.
C3_ExistingOpReused ==
    [][ (last'.called /\ cmd # NoCmd /\ hasOp(order, attrs, TargetNdx(cmd.kind)))
        => /\ ~last'.threw
           /\ last'.path = "found"
           /\ cmd'.op = getOp(order, attrs, TargetNdx(cmd.kind))[2]
           /\ order' = order
           /\ \A a \in AttrNames : AttrValid(attrs', a) <=> AttrValid(attrs, a)
           /\ last'.opLog = <<>> ]_vars

\* C4: when a step of the create path fails, the call fails and the prim is
\* as it was before the call.
C4_FailureLeavesNothing ==
    [][ last'.path = "failed"
        => /\ last'.threw
           /\ order' = order
           /\ \A a \in AttrNames : AttrValid(attrs', a) <=> AttrValid(attrs, a) ]_vars

\* C5: undo of an applied command puts the prim back exactly as it was
\* before the command's first value application.
C5_UndoRestores ==
    [][ (last'.act = "undo" /\ status = "done") => Prim' = cmd.before ]_vars

\* C6: undo of a command that never applied a value changes nothing: not
\* the prim, not the command, no notification, no failure.
C6_UndoBeforeCommit ==
    [][ (last'.act = "undo" /\ status = "fresh")
        => /\ order' = order /\ attrs' = attrs /\ cmd' = cmd
           /\ ~last'.threw /\ ~last'.called /\ last'.log = <<>> ]_vars

C6_Witness ==
    last.act = "undo" /\ last.from = "fresh" /\ status = "fresh"

\* C7: the value undo restores is captured once, at the first value
\* application, and undo puts the op's attribute back to what it was before
\* that application.
C7_CapturedOnce ==
    [][ /\ cmd.isPrepared => cmd'.initialOpValue = cmd.initialOpValue
        /\ (last'.act = "undo" /\ status = "done")
           => attrs'[cmd.op] = cmd.before.attrs[cmd.op] ]_vars

\* C8: a command that holds an op never runs its op function again,
\* createOpIfNeeded on a held op changes nothing, and redo after undo puts
\* the prim back as it was after the latest application, without duplicates.
C8_CreateOnce ==
    /\ [][ cmd.op # NoOp => ~last'.called ]_vars
    /\ [](OpValid(cmd.op, attrs)
          => \A f \in FailPoints :
               createOpIfNeeded(Call(Store(order, attrs), cmd), f)
                 = Call(Store(order, attrs), cmd))
    /\ [][ (last'.act = "redo" /\ status = "undone" /\ ~last'.threw)
           => Prim' = cmd.after /\ NoDuplicates(order') ]_vars

C8_Witness ==
    /\ last.act = "redo" /\ last.from = "undone" /\ status = "done"
    /\ cmd.opCreationUndo.any

\* C9: on the create path observers are shown nothing between the
\* structural writes and are notified once, with the final order, when the
\* guard is released.
C9_CreateNotifiesOnce ==
    /\ last.path = "created" => last.opLog = <<order>>
    /\ last.path = "failed" => last.opLog \in { <<>>, <<order>> }

C9_Witness ==
    /\ last.path = "created" /\ cmd.kind = "rotatePivot"
    /\ Len(order) >= 3

\* C10: a commit of a command, creation and reorder and value write
\* included, notifies observers exactly once.
C10_OneNotificationPerEdit ==
    (last.act \in { "set", "execute" } /\ last.from = "fresh" /\ ~last.threw)
        => Len(last.log) = 1

\* The attributes of the ops the prim lists at the position a command of
\* this kind edits.
TargetAttrs(kind) ==
    { order[i][2] : i \in { j \in 1..Len(order) :
                               /\ gOpNameToNdx[order[j]] = TargetNdx(kind)
                               /\ AttrValid(attrs, order[j][2]) } }

\* C11: a factory called while its target attribute exists and refuses
\* edits, or does not exist while the order attribute refuses edits, returns
\* no command, does not throw and leaves the prim as it was.
C11_EditNotAllowed ==
    [][ (/\ last'.act = "factory"
         /\ IF TargetAttrs(last'.kind) # {}
            THEN TargetAttrs(last'.kind) \subseteq last'.locked
            ELSE OrderAttr \in last'.locked)
        => /\ cmd' = NoCmd /\ ~last'.threw
           /\ order' = order /\ attrs' = attrs ]_vars

C11_Witness ==
    /\ last.act = "factory" /\ last.kind = "rotate" /\ cmd = NoCmd
    /\ TargetAttrs("rotate") # {} /\ TargetAttrs("rotate") \subseteq last.locked

\* C12: an item whose ops include one that the table does not resolve by
\* name and inverse flag is not matched: the next handler is asked.
C12_UnresolvableDelegates ==
    (/\ last.act = "transform3d" /\ last.item.usd /\ last.item.xformable
     /\ \E i \in 1..Len(order) : order[i] \notin DOMAIN gOpNameToNdx)
        => last.path = "next"

C12_Witness ==
    /\ last.act = "transform3d" /\ last.item.usd /\ last.item.xformable
    /\ Inv("xformOp:translate") \in Range(order)
    /\ \A i \in 1..Len(order) : Fwd(order[i][2]) \in DOMAIN gOpNameToNdx
    /\ last.path = "next"

\* C13: a transformable item that has no ops is matched: a stack is made
\* for it and the next handler is not asked.
C13_EmptyMatches ==
    (/\ last.act = "transform3d" /\ last.item.usd /\ last.item.xformable
     /\ GetOrderedXformOps(order, attrs) = <<>>)
        => last.path = "create"

C13_Witness ==
    /\ last.act = "transform3d" /\ last.item.usd /\ last.item.xformable
    /\ order = <<>> /\ last.path = "create"

\* The op at the position an accessor reads, when the list has one whose
\* attribute holds a value.
ListedAndWritten(kind) ==
    /\ hasOp(order, attrs, TargetNdx(kind))
    /\ HasValue(attrs, getOp(order, attrs, TargetNdx(kind))[2])

AccessorDefault(kind) == IF kind = "scale" THEN <<1, 1, 1>> ELSE <<0, 0, 0>>

\* C14: a read accessor returns the default (zero, one for scale) when the
\* list has no op at its position or the op's attribute was never written,
\* and the stored value otherwise (for rotation, the stored value converted
\* from the encoding of the op).
C14_ReadersDefaultOrStored ==
    last.act = "read" =>
        /\ ~last.threw
        /\ IF ~ListedAndWritten(last.kind)
           THEN last.v = AccessorDefault(last.kind)
           ELSE IF last.kind = "rotate"
           THEN last.v = CvtRotXYZFromAttr(
                    getCvtRotXYZFromAttrFn(GetOpName(getOp(order, attrs, NdxRotate))),
                    AttrGet(attrs, getOp(order, attrs, NdxRotate)[2]))
           ELSE last.v = AttrGet(attrs, getOp(order, attrs, TargetNdx(last.kind))[2])

\* C15: rotateCmd on a prim whose rotate op is xformOp:orient, edits being
\* allowed, fails at the lookup of the conversion and yields no command.
C15_OrientFailsAtLookup ==
    (/\ last.act = "factory" /\ last.kind = "rotate" /\ last.locked = {}
     /\ hasOp(order, attrs, NdxRotate)
     /\ getOp(order, attrs, NdxRotate) = Fwd("xformOp:orient"))
        => last.threw /\ cmd = NoCmd

\* What the rotate command is to store: the requested angles converted to
\* the encoding of the op; set() keeps them converted, the constructor
\* keeps them as passed.
RequestedStorage(c) ==
    IF Len(c.newOpValue) = 3 THEN CvtRotXYZToAttr(c.cvt, c.newOpValue)
    ELSE c.newOpValue

\* C16: committing a rotate command made for a prim whose rotate op has a
\* supported encoding creates no op, keeps the op list and leaves in the op
\* the requested angles converted to its encoding, set() called or not.
C16_ReuseStoresConverted ==
    (/\ last.act = "execute" /\ ~last.threw /\ cmd.kind = "rotate"
     /\ cmd.attrName \in { "xformOp:rotateX", "xformOp:rotateXYZ" })
        => /\ order = cmd.before.order
           /\ \A a \in AttrNames :
                AttrValid(attrs, a) <=> AttrValid(cmd.before.attrs, a)
           /\ attrs[cmd.attrName] = Value(RequestedStorage(cmd))

\* C17: committing a rotate command made for a prim without ops leaves the
\* op list holding xformOp:rotateXYZ alone, that attribute alone on the
\* prim, and rotation() returning the requested angles.
C17_RotateOnEmpty ==
    (/\ last.act \in { "set", "execute" } /\ ~last.threw /\ status = "done"
     /\ cmd.kind = "rotate" /\ cmd.attrName = "" /\ cmd.before.order = <<>>)
        => /\ order = <<Fwd("xformOp:rotateXYZ")>>
           /\ \A a \in AttrNames : AttrValid(attrs, a) <=> a = "xformOp:rotateXYZ"
           /\ rotation(order, attrs) = Returned(cmd.newOpValue)

C17_Witness ==
    /\ last.act = "execute" /\ ~last.threw /\ status = "done"
    /\ cmd.kind = "rotate" /\ cmd.attrName = "" /\ cmd.before.order = <<>>
    /\ order = <<Fwd("xformOp:rotateXYZ")>>
    /\ rotation(order, attrs) = Returned(<<MaxInput, 0, 0>>)

\* The rotation-order letters of the encodings.
OrderLetters == { "X", "Y", "Z", "XYZ", "XZY", "YXZ", "YZX", "ZXY", "ZYX" }

\* Both conversion tables hold the name, with the conversions of its order.
TablesPair(opName) ==
    \E o \in OrderLetters :
        /\ opName = "xformOp:rotate" \o o
        /\ getCvtRotXYZToAttrFn(opName) = "to" \o o
        /\ getCvtRotXYZFromAttrFn(opName) = "from" \o o

\* The angles with all but the one about the axis of a single-axis op zeroed.
OnAxis(opName, xyz) ==
    CASE opName = "xformOp:rotateX" -> <<xyz[1], 0, 0>>
      [] opName = "xformOp:rotateY" -> <<0, xyz[2], 0>>
      [] opName = "xformOp:rotateZ" -> <<0, 0, xyz[3]>>

C19_ScopeReleased == last.held = {}

C19_Witness ==
    /\ last.act \in { "set", "execute" } /\ last.called /\ last.path = "failed"
    /\ last.threw /\ last.held = {}

PivotStyleAttrs ==
    { "xformOp:translate:pivot", "xformOp:translate:rotatePivot",
      "xformOp:translate:scalePivot" }

\* C20: the table gives the rotate position to the three single-axis names,
\* the six rotation-order names and xformOp:orient, and gives the pivot, the
\* rotate pivot and the scale pivot each a position for the op and a later
\* one for its inverse; an op of the prim with one of the ten names is the
\* op at the rotate position.
C20_TableSlots ==
    /\ \A r \in RotateNames :
         Fwd(r) \in DOMAIN gOpNameToNdx /\ gOpNameToNdx[Fwd(r)] = NdxRotate
    /\ Cardinality(RotateNames) = 10
    /\ \A p \in PivotStyleAttrs :
         /\ Fwd(p) \in DOMAIN gOpNameToNdx /\ Inv(p) \in DOMAIN gOpNameToNdx
         /\ gOpNameToNdx[Fwd(p)] < gOpNameToNdx[Inv(p)]
    /\ \A n \in Range(getOrderedOps(order, attrs)) :
         n[2] \in RotateNames => hasOp(order, attrs, NdxRotate)

C20_Witness ==
    /\ last.act = "factory" /\ last.kind = "rotate"
    /\ order = <<Fwd("xformOp:orient")>> /\ cmd.attrName = "xformOp:orient"

\* The values a command can be asked to apply.
AppliedValues == Inputs \cup { <<v[1]>> : v \in Inputs } \cup { Empty }

\* C21: setValue with the empty value changes nothing, whatever the command
\* holds, and setValue with any value changes nothing while the command
\* holds no valid op.
C21_EmptyIgnored ==
    /\ setValue(Call(Store(order, attrs), cmd), Empty) = Call(Store(order, attrs), cmd)
    /\ ~OpValid(cmd.op, attrs)
         => \A v \in AppliedValues :
              setValue(Call(Store(order, attrs), cmd), v) = Call(Store(order, attrs), cmd)

C21_Witness ==
    /\ last.act = "undo" /\ last.from = "done" /\ cmd.initialOpValue = Empty
    /\ OpValid(cmd.op, attrs) /\ HasValue(attrs, cmd.op)

C23_AlwaysResolves ==
    /\ last.act = "init" => createTransform3d(NoItemFlags, order, attrs) = "create"
    /\ \A n \in Range(order) : n \in DOMAIN gOpNameToNdx
    /\ ~setXformOpOrder(Store(order, attrs), FALSE).threw

C23_Witness ==
    /\ last.act = "redo" /\ last.from = "undone" /\ ~last.threw
    /\ Inv("xformOp:translate:rotatePivot") \in Range(order)
    /\ cmd.opCreationUndo.any

\* C24: editTransform3d on a USD item whose prim is an instance proxy, or
\* whose edit target layer cannot be modified, returns null and calls no
\* next handler; on any other USD item it returns what the gate gives, and
\* the next handler the gate falls back to is asked through editTransform3d.
C24_EditGate ==
    (last.act = "editTransform3d" /\ last.item.usd) =>
        IF last.item.instanceProxy \/ ~last.item.layerModifiable
        THEN last.path = "null" /\ last.kind = "none"
        ELSE /\ last.path = createTransform3d(last.item, order, attrs)
             /\ last.path = "next" <=> last.kind = "editTransform3d"

C24_Witness ==
    /\ last.act = "editTransform3d" /\ last.item.usd /\ last.item.xformable
    /\ ~last.item.instanceProxy /\ ~last.item.layerModifiable
    /\ order = <<Fwd("xformOp:translate")>> /\ last.path = "null"

====
